---- MODULE Spec2Model ----
(***************************************************************************)
(* Model of confly (src/confly/confly.py): the build that Confly.__init__  *)
(* runs for a config path: argument classification, the top-level include, *)
(* the cfg-only interpolation pass, the overrides, the full interpolation  *)
(* pass and the numeric coercion (Spec); and the same build with the while *)
(* loop of _interpolate run a pass at a time on one string (SpecLoop).     *)
(*                                                                         *)
(* A Python string is a sequence of one-character strings, so the scanner, *)
(* split, strip, replace and the number conversions work on characters as  *)
(* the code does.  A value of the tree is a record whose field t is the    *)
(* Python type; a dict is the sequence of its items in insertion order.    *)
(***************************************************************************)
EXTENDS Integers, Sequences, FiniteSets, TLC

\* ------------------------------------------------------------------ bounds

\* nesting depth of the arithmetic expressions of the inputs
MaxDepth == 3
\* number of argument tokens of the inputs
MaxArgs == 2
\* passes allowed to one string before the while loop counts as endless
MaxIters == MaxDepth + 3

\* ------------------------------------------------------------------ values

\* t: the type; s: the text of a str (of a float, its repr); n: the number
\* of an int (of a bool, 1 or 0); items: the items of a dict, the elements
\* of a list (items whose key is empty)
Item(k, x) == [k |-> k, v |-> x]
VStr(s) == [t |-> "str", s |-> s, n |-> 0, items |-> <<>>]
VInt(n) == [t |-> "int", s |-> <<>>, n |-> n, items |-> <<>>]
VFloat(s) == [t |-> "float", s |-> s, n |-> 0, items |-> <<>>]
VBool(b) == [t |-> "bool", s |-> <<>>, n |-> IF b THEN 1 ELSE 0, items |-> <<>>]
VNone == [t |-> "none", s |-> <<>>, n |-> 0, items |-> <<>>]
VMap(items) == [t |-> "map", s |-> <<>>, n |-> 0, items |-> items]
VList(elems) == [t |-> "list", s |-> <<>>, n |-> 0,
                 items |-> [i \in 1..Len(elems) |-> Item(<<>>, elems[i])]]
Elems(x) == [i \in 1..Len(x.items) |-> x.items[i].v]

IsStr(x) == x.t = "str"
IsMap(x) == x.t = "map"
IsList(x) == x.t = "list"

\* dict: key lookup, membership and item assignment (insertion order kept)
Keys(items) == {items[i].k : i \in 1..Len(items)}
HasKey(items, k) == \E i \in 1..Len(items) : items[i].k = k
Get(items, k) == items[CHOOSE i \in 1..Len(items) : items[i].k = k].v
SetItem(items, k, x) ==
  IF HasKey(items, k)
  THEN [i \in 1..Len(items) |-> IF items[i].k = k THEN Item(k, x) ELSE items[i]]
  ELSE Append(items, Item(k, x))

\* ------------------------------------------------------------------ characters

LowerChars == {"a","b","c","d","e","f","g","h","i","j","k","l","m",
               "n","o","p","q","r","s","t","u","v","w","x","y","z"}
UpperChars == {"A","B","C","D","E","F","G","H","I","J","K","L","M",
               "N","O","P","Q","R","S","T","U","V","W","X","Y","Z"}
DigitChars == <<"0","1","2","3","4","5","6","7","8","9">>
IsDigit(c) == \E i \in 1..Len(DigitChars) : DigitChars[i] = c
DigitVal(c) == (CHOOSE i \in 1..Len(DigitChars) : DigitChars[i] = c) - 1
\* \w and \s of the regular expressions
IsWord(c) == c \in LowerChars \/ c \in UpperChars \/ IsDigit(c) \/ c = "_"
IsSpace(c) == c \in {" ", "\t", "\n"}

\* ------------------------------------------------------------------ str methods

\* sub in s (substring test), and the index of the first occurrence (0: none)
OccursAt(s, sub, i) == i + Len(sub) - 1 <= Len(s) /\ SubSeq(s, i, i + Len(sub) - 1) = sub
Find(s, sub) ==
  IF \E i \in 1..(Len(s) + 1) : OccursAt(s, sub, i)
  THEN CHOOSE i \in 1..(Len(s) + 1) :
         OccursAt(s, sub, i) /\ \A j \in 1..(i - 1) : ~OccursAt(s, sub, j)
  ELSE 0
Contains(s, sub) == Find(s, sub) > 0

\* s.replace(old, new, 1)
Replace1(s, old, new) ==
  LET i == Find(s, old)
  IN IF i = 0 THEN s
     ELSE SubSeq(s, 1, i - 1) \o new \o SubSeq(s, i + Len(old), Len(s))

\* s.replace(" ", "")
RECURSIVE RemoveSpaces(_)
RemoveSpaces(s) ==
  IF s = <<>> THEN <<>>
  ELSE IF Head(s) = " " THEN RemoveSpaces(Tail(s))
  ELSE <<Head(s)>> \o RemoveSpaces(Tail(s))

\* s.split(sep) for a one-character separator: always at least one piece
RECURSIVE Split(_, _)
Split(s, sep) ==
  IF \E i \in 1..Len(s) : s[i] = sep
  THEN LET i == CHOOSE i \in 1..Len(s) : s[i] = sep /\ \A j \in 1..(i - 1) : s[j] # sep
       IN <<SubSeq(s, 1, i - 1)>> \o Split(SubSeq(s, i + 1, Len(s)), sep)
  ELSE <<s>>

\* s.strip()
RECURSIVE LStrip(_)
LStrip(s) == IF s # <<>> /\ IsSpace(Head(s)) THEN LStrip(Tail(s)) ELSE s
RECURSIVE RStrip(_)
RStrip(s) ==
  IF s # <<>> /\ IsSpace(s[Len(s)]) THEN RStrip(SubSeq(s, 1, Len(s) - 1)) ELSE s
Strip(s) == RStrip(LStrip(s))

\* sep.join(parts)
RECURSIVE Join(_, _)
Join(parts, sep) ==
  IF parts = <<>> THEN <<>>
  ELSE IF Len(parts) = 1 THEN parts[1]
  ELSE parts[1] \o sep \o Join(Tail(parts), sep)

\* ------------------------------------------------------------------ scanner

\* The two compiled patterns differ in the operator name they accept:
\* general_op_regex takes \w+, cfg_regex the literal cfg.
RECURSIVE WordEnd(_, _)
WordEnd(s, i) == IF i <= Len(s) /\ IsWord(s[i]) THEN WordEnd(s, i + 1) ELSE i
RECURSIVE SpaceEnd(_, _)
SpaceEnd(s, i) == IF i <= Len(s) /\ IsSpace(s[i]) THEN SpaceEnd(s, i + 1) ELSE i

\* index after the operator name that starts at i, 0 when there is none
OpEnd(g, s, i) ==
  IF g = "cfg"
  THEN IF OccursAt(s, <<"c","f","g">>, i) THEN i + 3 ELSE 0
  ELSE IF WordEnd(s, i) > i THEN WordEnd(s, i) ELSE 0

NoMatch == [ok |-> FALSE, start |-> 0, opend |-> 0, argstart |-> 0, end |-> 0]

\* The match of the pattern that starts at index i.  Every step of the
\* pattern is forced by the next character, so the match at i is unique:
\*   \$\{ op \s*:\s* ( [^{}]+ | \{ (?0) \} )* \}
\* end is the index of the closing brace, argstart the first index of arg.
RECURSIVE MatchAt(_, _, _)
RECURSIVE ArgEnd(_, _, _)
MatchAt(g, s, i) ==
  IF ~(i + 1 <= Len(s) /\ s[i] = "$" /\ s[i + 1] = "{") THEN NoMatch
  ELSE LET j == OpEnd(g, s, i + 2)
       IN IF j = 0 THEN NoMatch
          ELSE LET k == SpaceEnd(s, j)
               IN IF ~(k <= Len(s) /\ s[k] = ":") THEN NoMatch
                  ELSE LET a == SpaceEnd(s, k + 1)
                           e == ArgEnd(g, s, a)
                       IN IF e = 0 THEN NoMatch
                          ELSE [ok |-> TRUE, start |-> i, opend |-> j,
                                argstart |-> a, end |-> e]
ArgEnd(g, s, p) ==
  IF p > Len(s) THEN 0
  ELSE IF s[p] = "}" THEN p
  ELSE IF s[p] = "{"
       THEN LET m == MatchAt(g, s, p + 1)
            IN IF m.ok /\ m.end + 1 <= Len(s) /\ s[m.end + 1] = "}"
               THEN ArgEnd(g, s, m.end + 2)
               ELSE 0
  ELSE ArgEnd(g, s, p + 1)

\* op_regex.finditer(obj): the leftmost match
RECURSIVE FirstMatchFrom(_, _, _)
FirstMatchFrom(g, s, i) ==
  IF i > Len(s) THEN NoMatch
  ELSE IF MatchAt(g, s, i).ok THEN MatchAt(g, s, i)
  ELSE FirstMatchFrom(g, s, i + 1)
FirstMatch(g, s) == FirstMatchFrom(g, s, 1)

\* fullmatch, search and the first match of finditer; the match at an index
\* is unique, so the whole string matches when the match at its start ends it
IsEntireExpression(g, s) == FirstMatch(g, s).start = 1 /\ FirstMatch(g, s).end = Len(s)
ContainsExpression(g, s) == FirstMatch(g, s).ok
GetExpression(g, s) ==
  [expr |-> SubSeq(s, FirstMatch(g, s).start, FirstMatch(g, s).end),
   op |-> SubSeq(s, FirstMatch(g, s).start + 2, FirstMatch(g, s).opend - 1),
   arg |-> SubSeq(s, FirstMatch(g, s).argstart, FirstMatch(g, s).end - 1)]

\* ------------------------------------------------------------------ numbers

\* s.isdigit()
IsDigits(s) == s # <<>> /\ \A i \in 1..Len(s) : IsDigit(s[i])
\* int(s) for a string of digits
RECURSIVE DecVal(_)
DecVal(s) == IF s = <<>> THEN 0 ELSE 10 * DecVal(SubSeq(s, 1, Len(s) - 1)) + DigitVal(s[Len(s)])
AllZeros(s) == \A i \in 1..Len(s) : s[i] = "0"

\* str(n) for an int
RECURSIVE NatToStr(_)
NatToStr(n) == IF n < 10 THEN <<DigitChars[n + 1]>> ELSE NatToStr(n \div 10) \o <<DigitChars[(n % 10) + 1]>>
IntToStr(n) == IF n < 0 THEN <<"-">> \o NatToStr(-n) ELSE NatToStr(n)

RECURSIVE DropLeadingZeros(_)
DropLeadingZeros(s) == IF Len(s) > 1 /\ Head(s) = "0" THEN DropLeadingZeros(Tail(s)) ELSE s
RECURSIVE DropTrailingZeros(_)
DropTrailingZeros(s) ==
  IF s # <<>> /\ s[Len(s)] = "0" THEN DropTrailingZeros(SubSeq(s, 1, Len(s) - 1)) ELSE s

\* float(s) for the decimal literals  [ws] [sign] digits [. digits] [ws]  and
\* [ws] [sign] . digits [ws]; ok is FALSE where float() raises ValueError.
\* Exponents, inf, nan and digit-group underscores are not in the model's
\* inputs.
FloatFields(neg, parts) ==
  [ok |-> /\ Len(parts) <= 2
          /\ \A p \in 1..Len(parts) : \A i \in 1..Len(parts[p]) : IsDigit(parts[p][i])
          /\ \E p \in 1..Len(parts) : parts[p] # <<>>,
   neg |-> neg,
   ip |-> parts[1],
   fp |-> IF Len(parts) = 2 THEN parts[2] ELSE <<>>]
FloatSigned(u) ==
  FloatFields(u # <<>> /\ Head(u) = "-",
              Split(IF u # <<>> /\ Head(u) \in {"-", "+"} THEN Tail(u) ELSE u, "."))
FloatParse(s) == FloatSigned(Strip(s))

\* the number float(s) stands for: an int when it has no fractional part
NumericOf(x, f) ==
  IF ~f.ok THEN x
  ELSE IF AllZeros(f.fp) THEN VInt(IF f.neg THEN -DecVal(f.ip) ELSE DecVal(f.ip))
  ELSE VFloat((IF f.neg THEN <<"-">> ELSE <<>>)
              \o DropLeadingZeros(IF f.ip = <<>> THEN <<"0">> ELSE f.ip)
              \o <<".">> \o DropTrailingZeros(f.fp))

\* _maybe_convert_to_numeric
MaybeConvertToNumeric(x) ==
  IF ~IsStr(x) THEN x
  ELSE IF IsDigits(x.s) THEN VInt(DecVal(x.s))
  ELSE NumericOf(x, FloatParse(x.s))

\* _apply_recursively(self._maybe_convert_to_numeric, obj)
RECURSIVE ApplyRecursively(_)
ApplyRecursively(x) ==
  IF IsMap(x)
  THEN VMap([i \in 1..Len(x.items) |-> Item(x.items[i].k, ApplyRecursively(x.items[i].v))])
  ELSE IF IsList(x)
  THEN VList([i \in 1..Len(x.items) |-> ApplyRecursively(x.items[i].v)])
  ELSE MaybeConvertToNumeric(x)

\* ------------------------------------------------------------------ results

\* The outcome of a call: a value, a raised exception (kind is its class),
\* or a loop that never exits.  ev lists the operators dispatched, in order.
Ok(x) == [st |-> "ok", v |-> x, kind |-> "", ev |-> <<>>]
Err(kind) == [st |-> "err", v |-> VNone, kind |-> kind, ev |-> <<>>]
Hang(kind) == [st |-> "hang", v |-> VNone, kind |-> kind, ev |-> <<>>]
After(ev, r) == [r EXCEPT !.ev = ev \o @]

\* ------------------------------------------------------------------ operators

sVAR == <<"v","a","r">>
sCFG == <<"c","f","g">>
sENV == <<"e","n","v">>
sADD == <<"a","d","d">>
sSUB == <<"s","u","b">>
sMUL == <<"m","u","l">>
\* hasattr(operator, op): the functions of Python's operator module that the
\* model evaluates
OperatorAttrs == {sADD, sSUB, sMUL}

\* operator.add / sub / mul on the values _maybe_convert_to_numeric returns.
\* No input has a float operand; float arithmetic is left out and a use of
\* it would end the build in the error "Unmodelled", which no build reaches.
RECURSIVE Repeat(_, _)
Repeat(s, n) == IF n <= 0 THEN <<>> ELSE s \o Repeat(s, n - 1)
BinOp(op, a, b) ==
  IF a.t = "float" \/ b.t = "float" THEN Err("Unmodelled")
  ELSE IF op = sADD
  THEN IF a.t = "int" /\ b.t = "int" THEN Ok(VInt(a.n + b.n))
       ELSE IF a.t = "str" /\ b.t = "str" THEN Ok(VStr(a.s \o b.s))
       ELSE Err("TypeError")
  ELSE IF op = sSUB
  THEN IF a.t = "int" /\ b.t = "int" THEN Ok(VInt(a.n - b.n)) ELSE Err("TypeError")
  ELSE IF a.t = "int" /\ b.t = "int" THEN Ok(VInt(a.n * b.n))
       ELSE IF a.t = "str" /\ b.t = "int" THEN Ok(VStr(Repeat(a.s, b.n)))
       ELSE IF a.t = "int" /\ b.t = "str" THEN Ok(VStr(Repeat(b.s, a.n)))
       ELSE Err("TypeError")

\* a fold that associates to the right: acc op (x1 op (x2 op ...))
RECURSIVE ReduceRight(_, _, _)
ReduceRightWith(op, acc, r) == IF r.st # "ok" THEN r ELSE BinOp(op, acc, r.v)
ReduceRight(op, acc, rest) ==
  IF rest = <<>> THEN Ok(acc)
  ELSE ReduceRightWith(op, acc, ReduceRight(op, Head(rest), Tail(rest)))

\* functools.reduce(op, args): the left fold, acc the value so far
RECURSIVE Reduce(_, _, _)
ReduceNext(op, r, rest) == IF r.st # "ok" THEN r ELSE Reduce(op, r.v, rest)
Reduce(op, acc, rest) ==
  IF rest = <<>> THEN Ok(acc) ELSE ReduceNext(op, BinOp(op, acc, Head(rest)), Tail(rest))

\* str(x) of a reduce result
ToStr(x) == IF x.t = "int" THEN IntToStr(x.n) ELSE x.s
StrResult(r) == IF r.st # "ok" THEN r ELSE Ok(VStr(ToStr(r.v)))

\* _interpolate_math
Operands(parts) == [i \in 1..Len(parts) |-> MaybeConvertToNumeric(VStr(Strip(parts[i])))]
ReduceAll(op, nums) == Reduce(op, Head(nums), Tail(nums))
InterpolateMath(op, args) == StrResult(ReduceAll(op, Operands(Split(args, ","))))

\* _interpolate_var: the walk from self.config; `key not in x` is a key test
\* on a dict, a substring test on a str, an element test on a list, and a
\* TypeError on any other value; x[key] on a str or list is a TypeError.
RECURSIVE WalkKeys(_, _)
WalkKeys(cur, keys) ==
  IF keys = <<>> THEN Ok(cur)
  ELSE IF cur.t = "map"
  THEN IF HasKey(cur.items, Head(keys)) THEN WalkKeys(Get(cur.items, Head(keys)), Tail(keys))
       ELSE Err("RuntimeError")
  ELSE IF cur.t = "str"
  THEN IF Contains(cur.s, Head(keys)) THEN Err("TypeError") ELSE Err("RuntimeError")
  ELSE IF cur.t = "list"
  THEN IF \E i \in 1..Len(cur.items) : cur.items[i].v = VStr(Head(keys))
       THEN Err("TypeError") ELSE Err("RuntimeError")
  ELSE Err("TypeError")
InterpolateVar(config, arg) == WalkKeys(config, Split(arg, "."))

\* _load_conf: the file read is keyed by its name without the .yml suffix;
\* a name with another suffix has the suffix replaced (Path.with_suffix).
LastDot(name) ==
  IF \E i \in 2..(Len(name) - 1) : name[i] = "."
  THEN CHOOSE i \in 2..(Len(name) - 1) :
         name[i] = "." /\ \A j \in (i + 1)..(Len(name) - 1) : name[j] # "."
  ELSE 0
FileStem(name) == IF LastDot(name) = 0 THEN name ELSE SubSeq(name, 1, LastDot(name) - 1)
LoadConf(files, name) ==
  IF HasKey(files, FileStem(name)) THEN Ok(Get(files, FileStem(name)))
  ELSE Err("FileNotFoundError")

\* an update that keeps the value of a key the dict already holds
RECURSIVE UpdateItemsKeep(_, _)
UpdateItemsKeep(items, other) ==
  IF other = <<>> THEN items
  ELSE IF HasKey(items, Head(other).k) THEN UpdateItemsKeep(items, Tail(other))
  ELSE UpdateItemsKeep(Append(items, Head(other)), Tail(other))

\* dict.update(other) for a dict
RECURSIVE UpdateItems(_, _)
UpdateItems(items, other) ==
  IF other = <<>> THEN items
  ELSE UpdateItems(SetItem(items, Head(other).k, Head(other).v), Tail(other))

\* dict.update(other) for a list: every element must be a pair.  A pair
\* whose first element is not a str would give a key that is not a str,
\* which the model's dicts do not hold.
PairOf(e) ==
  IF e.t = "str"
  THEN IF Len(e.s) = 2 THEN Ok(Item(<<e.s[1]>>, VStr(<<e.s[2]>>))) ELSE Err("ValueError")
  ELSE IF e.t = "list"
  THEN IF Len(e.items) # 2 THEN Err("ValueError")
       ELSE IF e.items[1].v.t = "str" THEN Ok(Item(e.items[1].v.s, e.items[2].v))
       ELSE IF e.items[1].v.t \in {"list", "map"} THEN Err("TypeError")
       ELSE Err("Unmodelled")
  ELSE IF e.t = "map"
  THEN IF Len(e.items) = 2 THEN Ok(Item(e.items[1].k, VStr(e.items[2].k))) ELSE Err("ValueError")
  ELSE Err("TypeError")
RECURSIVE UpdateFromList(_, _)
UpdateFromPair(items, p, rest) ==
  IF p.st # "ok" THEN p ELSE UpdateFromList(SetItem(items, p.v.k, p.v.v), rest)
UpdateFromList(items, elems) ==
  IF elems = <<>> THEN Ok(items) ELSE UpdateFromPair(items, PairOf(Head(elems)), Tail(elems))

\* _interpolate_cfg: the loop over the listed documents, config the dict so
\* far; a document that is neither a dict nor a list is returned at once
RECURSIVE MergeConfigs(_, _, _)
MergeList(files, u, names) == IF u.st # "ok" THEN u ELSE MergeConfigs(files, u.v, names)
MergeDoc(files, config, d, names) ==
  IF d.st # "ok" THEN d
  ELSE IF IsMap(d.v) THEN MergeConfigs(files, UpdateItems(config, d.v.items), names)
  ELSE IF IsList(d.v) THEN MergeList(files, UpdateFromList(config, Elems(d.v)), names)
  ELSE Ok(d.v)
MergeConfigs(files, config, names) ==
  IF names = <<>> THEN Ok(VMap(config))
  ELSE MergeDoc(files, config, LoadConf(files, Head(names)), Tail(names))
InterpolateCfg(files, arg) == MergeConfigs(files, <<>>, Split(RemoveSpaces(arg), ","))

\* os.path.expandvars(path): every $NAME and ${NAME} whose NAME is set is
\* replaced by its value, the others are left; the scan resumes after the
\* value or after the reference.
VarRefEnd(path, i) ==
  IF i + 1 <= Len(path) /\ IsWord(path[i + 1]) THEN WordEnd(path, i + 1) - 1
  ELSE IF i + 1 <= Len(path) /\ path[i + 1] = "{"
          /\ \E j \in (i + 2)..Len(path) : path[j] = "}"
  THEN CHOOSE j \in (i + 2)..Len(path) :
         path[j] = "}" /\ \A k \in (i + 2)..(j - 1) : path[k] # "}"
  ELSE 0
VarRefName(path, i) ==
  IF path[i + 1] = "{" THEN SubSeq(path, i + 2, VarRefEnd(path, i) - 1)
  ELSE SubSeq(path, i + 1, VarRefEnd(path, i))
RECURSIVE ExpandVars(_, _, _)
ExpandVars(environ, path, i) ==
  IF i > Len(path) THEN path
  ELSE IF path[i] # "$" \/ VarRefEnd(path, i) = 0 THEN ExpandVars(environ, path, i + 1)
  ELSE LET j == VarRefEnd(path, i)
           name == VarRefName(path, i)
       IN IF HasKey(environ, name)
          THEN ExpandVars(environ,
                          SubSeq(path, 1, i - 1) \o Get(environ, name)
                            \o SubSeq(path, j + 1, Len(path)),
                          i + Len(Get(environ, name)))
          ELSE ExpandVars(environ, path, j + 1)
\* _interpolate_env
InterpolateEnv(environ, arg) == Ok(VStr(ExpandVars(environ, <<"$">> \o arg, 1)))

\* _interpolate_op: ctx holds self.config, the files under config_dir and
\* the process environment
OpKind(op) ==
  IF op = sVAR THEN "var" ELSE IF op = sCFG THEN "cfg" ELSE IF op = sENV THEN "env"
  ELSE IF op \in OperatorAttrs THEN "math" ELSE "unknown"
\* the record of one dispatch (or of one override): what was evaluated and
\* what came of it
Event(kind, arg, r) ==
  [kind |-> kind, arg |-> arg, st |-> r.st, res |-> r.v, err |-> r.kind, pass |-> ""]
Dispatch(ctx, expr, op, arg) ==
  IF op = sVAR THEN InterpolateVar(ctx.config, arg)
  ELSE IF op = sCFG THEN InterpolateCfg(ctx.files, arg)
  ELSE IF op = sENV THEN InterpolateEnv(ctx.environ, arg)
  ELSE IF op \in OperatorAttrs THEN InterpolateMath(op, arg)
  ELSE Ok(VStr(expr))
Recorded(kind, arg, r) == After(<<Event(kind, arg, r)>>, r)
InterpolateOp(ctx, expr, op, arg) == Recorded(OpKind(op), arg, Dispatch(ctx, expr, op, arg))

\* ------------------------------------------------------------------ _interpolate

RECURSIVE Interpolate(_, _, _)
RECURSIVE InterpolateSeq(_, _, _)
RECURSIVE ReplaceLoop(_, _, _, _)

\* One pass of the body of the while loop of _interpolate: the first
\* expression of obj is interpolated and its first occurrence replaced.
\* str.replace raises TypeError when the replacement is not a str.
Replaced(obj, expr, r) ==
  IF r.st # "ok" THEN r
  ELSE IF ~IsStr(r.v) THEN After(r.ev, Err("TypeError"))
  ELSE After(r.ev, Ok(VStr(Replace1(obj, expr, r.v.s))))
ReplaceExpr(g, ctx, obj, expr) == Replaced(obj, expr, Interpolate(g, ctx, VStr(expr)))
ReplaceStep(g, ctx, obj) == ReplaceExpr(g, ctx, obj, GetExpression(g, obj).expr)

\* The while loop, at most n passes long.  A pass that leaves obj as it was
\* repeats for ever, since nothing else changes between two passes.
LoopNext(g, ctx, obj, n, r) ==
  IF r.st # "ok" THEN r
  ELSE IF r.v.s = obj THEN After(r.ev, Hang("fixpoint"))
  ELSE After(r.ev, ReplaceLoop(g, ctx, r.v.s, n - 1))
ReplaceLoop(g, ctx, obj, n) ==
  IF ~ContainsExpression(g, obj) THEN Ok(VStr(obj))
  ELSE IF n = 0 THEN Hang("fuel")
  ELSE LoopNext(g, ctx, obj, n, ReplaceStep(g, ctx, obj))

\* the values of a dict or the elements of a list, in order; the first
\* exception ends the walk
SeqJoin(r, rest) ==
  IF rest.st # "ok" THEN After(r.ev, rest) ELSE After(r.ev \o rest.ev, Ok(<<r.v>> \o rest.v))
SeqNext(g, ctx, r, xs) == IF r.st # "ok" THEN r ELSE SeqJoin(r, InterpolateSeq(g, ctx, xs))
InterpolateSeq(g, ctx, xs) ==
  IF xs = <<>> THEN Ok(<<>>) ELSE SeqNext(g, ctx, Interpolate(g, ctx, Head(xs)), Tail(xs))

\* the dict or list rebuilt from its interpolated values
Rebuilt(obj, r) ==
  IF r.st # "ok" THEN r
  ELSE IF IsMap(obj)
  THEN After(r.ev, Ok(VMap([i \in 1..Len(obj.items) |-> Item(obj.items[i].k, r.v[i])])))
  ELSE After(r.ev, Ok(VList(r.v)))

\* a str: m is the first match of op_regex in it.  The string is an entire
\* expression when that match spans it, and contains one when there is a match.
ExprOf(s, m) == SubSeq(s, m.start, m.end)
OpOf(s, m) == SubSeq(s, m.start + 2, m.opend - 1)
ArgOf(s, m) == SubSeq(s, m.argstart, m.end - 1)
InterpolateStr(g, ctx, s, m) ==
  IF m.ok /\ m.start = 1 /\ m.end = Len(s)
  THEN InterpolateOp(ctx, ExprOf(s, m), OpOf(s, m), ArgOf(s, m))
  ELSE IF m.ok THEN ReplaceLoop(g, ctx, s, MaxIters)
  ELSE Ok(VStr(s))

Interpolate(g, ctx, obj) ==
  IF IsMap(obj) \/ IsList(obj) THEN Rebuilt(obj, InterpolateSeq(g, ctx, Elems(obj)))
  ELSE IF IsStr(obj) THEN InterpolateStr(g, ctx, obj.s, FirstMatch(g, obj.s))
  ELSE Ok(obj)

\* ------------------------------------------------------------------ arguments

sTRUE == <<"=","T","r","u","e">>

\* _parse_args: the loop over args.  With cli the list sys.argv[1:] is
\* appended to args as one element; `in` on a list is an element test and
\* list + str is a TypeError.
RECURSIVE Classify(_, _, _)
Classify(args, configs, parameters) ==
  IF args = <<>> THEN Ok([configs |-> configs, parameters |-> parameters])
  ELSE LET arg == Head(args)
       IN IF IsStr(arg)
          THEN IF Contains(arg.s, <<"=">>)
               THEN Classify(Tail(args), configs, Append(parameters, arg))
               ELSE IF Contains(arg.s, <<"-","-">>)
               THEN Classify(Tail(args), configs,
                             Append(parameters, VStr(SubSeq(arg.s, 3, Len(arg.s)) \o sTRUE)))
               ELSE Classify(Tail(args), Append(configs, arg), parameters)
          ELSE IF \E i \in 1..Len(arg.items) : arg.items[i].v = VStr(<<"=">>)
               THEN Classify(Tail(args), configs, Append(parameters, arg))
               ELSE IF \E i \in 1..Len(arg.items) : arg.items[i].v = VStr(<<"-","-">>)
               THEN Err("TypeError")
               ELSE Classify(Tail(args), Append(configs, arg), parameters)
ParseArgsOf(args, cli, argv) ==
  Classify(IF cli THEN Append(args, VList(argv)) ELSE args, <<>>, <<>>)

\* _update_config for a config path: the include of the path and of the
\* argument paths; str.join raises TypeError on an element that is not a str
UpdateConfigOf(config, arg_configs) ==
  LET all == <<config>> \o arg_configs
  IN IF \E i \in 1..Len(all) : ~IsStr(all[i]) THEN Err("TypeError")
     ELSE Ok(VStr(<<"$","{","c","f","g",":">>
                  \o Join([i \in 1..Len(all) |-> all[i].s], <<",">>) \o <<"}">>))

\* the body of the loop of _update_parameters for the keys of one override:
\* a missing key gets a new dict, the last key is assigned; item assignment
\* and `in` on a value that is not a dict raise TypeError
RECURSIVE SetPath(_, _, _)
SetChild(cur, key, r) == IF r.st # "ok" THEN r ELSE Ok(VMap(SetItem(cur.items, key, r.v)))
SetPath(cur, keys, value) ==
  IF ~IsMap(cur) THEN Err("TypeError")
  ELSE IF Len(keys) = 1 THEN Ok(VMap(SetItem(cur.items, Head(keys), value)))
  ELSE SetChild(cur, Head(keys),
                SetPath(IF HasKey(cur.items, Head(keys)) THEN Get(cur.items, Head(keys))
                        ELSE VMap(<<>>),
                        Tail(keys), value))

\* _update_parameters: the overrides in the order given; the unpacking of
\* para.split("=") raises ValueError unless there is exactly one "="
RECURSIVE UpdateParametersOf(_, _)
OverrideDone(para, r, rest) ==
  IF r.st # "ok" THEN r
  ELSE After(<<Event("override", para, r)>>, UpdateParametersOf(r.v, rest))
Override(config, para, kv, rest) ==
  IF Len(kv) # 2 THEN Err("ValueError")
  ELSE OverrideDone(para, SetPath(config, Split(kv[1], "."), VStr(kv[2])), rest)
UpdateParametersOf(config, parameters) ==
  IF parameters = <<>> THEN Ok(config)
  ELSE IF ~IsStr(Head(parameters)) THEN Err("AttributeError")
  ELSE Override(config, Head(parameters).s, Split(Head(parameters).s, "="), Tail(parameters))

\* the end of __init__: the keys become attributes, then the attributes the
\* constructor used are deleted, a key of the same name with them; a nested
\* dict is wrapped the same way
ReservedAttrs == {<<"c","o","n","f","i","g">>,
                  <<"c","o","n","f","i","g","_","d","i","r">>,
                  <<"o","p","_","r","e","g","e","x">>,
                  <<"g","e","n","e","r","a","l","_","o","p","_","r","e","g","e","x">>,
                  <<"c","f","g","_","r","e","g","e","x">>}
RECURSIVE DropReserved(_)
DropReserved(items) ==
  IF items = <<>> THEN <<>>
  ELSE IF Head(items).k \in ReservedAttrs THEN DropReserved(Tail(items))
  ELSE <<Head(items)>> \o DropReserved(Tail(items))
RECURSIVE Attributes(_)
Attributes(x) ==
  IF ~IsMap(x) THEN x
  ELSE VMap([i \in 1..Len(DropReserved(x.items)) |->
               Item(DropReserved(x.items)[i].k, Attributes(DropReserved(x.items)[i].v))])

\* ------------------------------------------------------------------ inputs

\* ${op:arg}
Expr(op, arg) == <<"$","{">> \o op \o <<":">> \o arg \o <<"}">>
sFOO == <<"f","o","o">>
sMAIN == <<"M">>

\* a nested arithmetic expression: a leaf is a number, a node an operator
\* over operands
Leaf(n) == [op |-> <<>>, n |-> n, args |-> <<>>]
Node(op, args) == [op |-> op, n |-> 0, args |-> args]
NoAst == Leaf(0)
MathOps == {sADD, sSUB, sMUL}
\* the expressions of nesting depth d: the nested expression is the first,
\* the last or the middle operand
RECURSIVE Nests(_)
Nests(d) ==
  IF d = 1
  THEN {Node(op, <<Leaf(2), Leaf(3)>>) : op \in MathOps} \cup {Node(sSUB, <<Leaf(1), Leaf(2), Leaf(3)>>)}
  ELSE UNION {{Node(op, <<Leaf(d - 1), e>>), Node(op, <<e, Leaf(d - 1)>>)} :
                op \in MathOps, e \in Nests(d - 1)}
       \cup {Node(sSUB, <<Leaf(d - 1), e, Leaf(1)>>) : e \in Nests(d - 1)}
RECURSIVE Render(_)
Render(e) ==
  IF e.op = <<>> THEN IntToStr(e.n)
  ELSE Expr(e.op, <<" ">> \o Join([i \in 1..Len(e.args) |-> Render(e.args[i])], <<",", " ">>))
RECURSIVE Depth(_)
Depth(e) ==
  IF e.op = <<>> THEN 0
  ELSE 1 + (CHOOSE m \in {Depth(e.args[i]) : i \in 1..Len(e.args)} :
              \A i \in 1..Len(e.args) : Depth(e.args[i]) <= m)

\* the documents under config_dir
DocA == VMap(<<Item(<<"x">>, VInt(1)), Item(<<"y">>, VInt(1))>>)
DocB == VMap(<<Item(<<"y">>, VInt(2)), Item(<<"z">>, VInt(2))>>)
DocN == VMap(<<Item(<<"y">>, VMap(<<Item(<<"p">>, VInt(1))>>)),
               Item(<<"x">>, VMap(<<Item(<<"q">>, VInt(1))>>))>>)
DocP == VMap(<<Item(<<"y">>, VMap(<<Item(<<"r">>, VInt(3))>>))>>)
DocBase == VMap(<<Item(<<"a">>, VMap(<<Item(<<"b">>, VInt(1))>>)),
                  Item(<<"r">>, VStr(Expr(sVAR, <<"a",".","b">>)))>>)
DocPool == <<Item(<<"A">>, DocA), Item(<<"B">>, DocB), Item(<<"N">>, DocN),
             Item(<<"P">>, DocP), Item(<<"D">>, DocBase),
             Item(<<"S">>, VStr(<<"h","i">>)), Item(<<"L">>, VList(<<VStr(<<"k","v">>)>>)),
             Item(<<"E">>, VNone)>>
Environ == <<Item(<<"F","O","O">>, <<"b","a","r">>)>>

Scn(config, doc, args, cli, ast, cyclic) ==
  [config |-> config, files |-> SetItem(DocPool, sMAIN, doc), environ |-> Environ,
   args |-> args, cli |-> cli, argv |-> <<VStr(<<"B">>)>>, ast |-> ast, cyclic |-> cyclic]

\* builds of one document holding one nested arithmetic expression
MathInputs ==
  {Scn(sMAIN, VMap(<<Item(<<"r">>, VStr(Render(e)))>>), <<>>, FALSE, e, FALSE) :
     e \in UNION {Nests(d) : d \in 1..MaxDepth}}

\* builds of a pool document with up to MaxArgs argument tokens: document
\* paths, overrides, flags
Tokens == {<<"B">>, <<"N">>, <<"P">>,
           <<"a",".","b","=","5">>, <<"a",".","b","=","6">>, <<"a","=","7">>,
           <<"y",".","p","=","8">>, <<"z","=","9">>,
           <<"-","-","v">>, <<"y","-","-","z">>}
RECURSIVE TokenLists(_)
TokenLists(n) ==
  IF n = 0 THEN {<<>>}
  ELSE TokenLists(n - 1) \cup {Append(l, VStr(tok)) : l \in TokenLists(n - 1), tok \in Tokens}
ArgInputs ==
  {Scn(c, VNone, l, FALSE, NoAst, FALSE) : c \in {<<"A">>, <<"D">>}, l \in TokenLists(MaxArgs)}

\* builds of single documents
Doc1(k1, v1) == VMap(<<Item(k1, v1)>>)
Doc2(k1, v1, k2, v2) == VMap(<<Item(k1, v1), Item(k2, v2)>>)
Doc3(k1, v1, k2, v2, k3, v3) == VMap(<<Item(k1, v1), Item(k2, v2), Item(k3, v3)>>)
SVar(path) == VStr(Expr(sVAR, path))
XVar(path) == VStr(<<"x">> \o Expr(sVAR, path))
Docs ==
  { \* chains of variables, the reference the whole string or part of it
    Doc3(<<"a">>, SVar(<<"b">>), <<"b">>, SVar(<<"c">>), <<"c">>, VInt(1)),
    Doc3(<<"a">>, XVar(<<"b">>), <<"b">>, SVar(<<"c">>), <<"c">>, VStr(<<"1">>)),
    Doc3(<<"a">>, XVar(<<"b">>), <<"b">>, VStr(Expr(sVAR, <<"c">>) \o Expr(sVAR, <<"c">>)),
         <<"c">>, VStr(<<"1">>)),
    \* operators the dispatcher does not know
    Doc1(<<"a">>, VStr(Expr(sFOO, <<"b","a","r">>))),
    Doc1(<<"a">>, VStr(<<"x">> \o Expr(sFOO, <<"b","a","r">>))),
    Doc2(<<"a">>, VStr(Expr(sFOO, <<"1">>) \o <<"y">>), <<"b">>, VInt(1)),
    \* undefined variables
    Doc1(<<"b">>, SVar(<<"m">>)),
    Doc1(<<"b">>, XVar(<<"m">>)),
    Doc2(<<"a">>, VInt(1), <<"b">>, SVar(<<"a",".","x">>)),
    Doc2(<<"a">>, VStr(<<"h","i">>), <<"b">>, SVar(<<"a",".","x">>)),
    Doc2(<<"a">>, VStr(<<"h","i">>), <<"b">>, SVar(<<"a",".","h">>)),
    Doc2(<<"a">>, VList(<<VStr(<<"h">>)>>), <<"b">>, SVar(<<"a",".","x">>)),
    Doc2(<<"a">>, VMap(<<Item(<<"c">>, VInt(1))>>), <<"b">>, SVar(<<"a",".","x">>)),
    Doc2(<<"a">>, VMap(<<Item(<<"c">>, VInt(1))>>), <<"b">>, SVar(<<"a",".","c">>)),
    \* values that are not strings inside a longer string
    Doc2(<<"n">>, VInt(5), <<"s">>, XVar(<<"n">>)),
    Doc2(<<"n">>, VBool(TRUE), <<"s">>, XVar(<<"n">>)),
    Doc2(<<"n">>, VMap(<<Item(<<"k">>, VInt(1))>>), <<"s">>, XVar(<<"n">>)),
    Doc2(<<"n">>, VStr(<<"5">>), <<"s">>, XVar(<<"n">>)),
    Doc2(<<"n">>, VStr(<<"2">>), <<"s">>, VStr(Expr(sMUL, Expr(sVAR, <<"n">>) \o <<",","3">>))),
    \* includes inside a document
    Doc2(<<"m">>, VStr(Expr(sCFG, <<"B">>)), <<"k">>, VStr(<<"1">>)),
    Doc1(<<"m">>, VStr(Expr(sCFG, <<" ","A",","," ","B">>))),
    Doc1(<<"m">>, VStr(Expr(sCFG, <<"D">>))),
    Doc1(<<"m">>, VStr(Expr(sCFG, <<"A",",","S",",","B">>))),
    Doc1(<<"m">>, VStr(Expr(sCFG, <<"A",",","L">>))),
    Doc1(<<"m">>, VStr(<<"x">> \o Expr(sCFG, <<"S">>))),
    Doc1(<<"m">>, VStr(Expr(sCFG, <<"Z">>))),
    \* the environment
    Doc3(<<"e">>, VStr(Expr(sENV, <<"F","O","O">>)), <<"u">>, VStr(Expr(sENV, <<"N","O">>)),
         <<"p">>, VStr(<<"p","-">> \o Expr(sENV, <<"F","O","O">>))),
    \* arithmetic on operands that are not numbers, and on braces
    Doc1(<<"r">>, VStr(Expr(sSUB, <<"a",",","1">>))),
    Doc1(<<"r">>, VStr(Expr(sADD, <<"a",","," ","b">>))),
    Doc1(<<"r">>, VStr(Expr(sMUL, <<"a","b",",","2">>))),
    Doc1(<<"r">>, VStr(Expr(sADD, <<"1",",","{">> \o Expr(sADD, <<"2",",","3">>) \o <<"}">>))),
    \* numbers and a key named after an attribute of the constructor
    Doc3(<<"f">>, VStr(<<"1",".","5","0">>), <<"g">>, VStr(<<" ","-","2",".","0">>),
         <<"h">>, VStr(<<"0","0","7">>)),
    Doc2(<<"c","o","n","f","i","g">>, VInt(1), <<"x">>, VList(<<VStr(<<"3">>), SVar(<<"x">>)>>))
  }
DocInputs ==
  {Scn(sMAIN, d, l, FALSE, NoAst, FALSE) :
     d \in Docs, l \in {<<>>, <<VStr(<<"n","=","6">>)>>}}

\* builds with the command line, of a document that is not a dict, of a
\* file that does not exist, and of a variable that refers to itself
OtherInputs ==
  {Scn(<<"A">>, VNone, <<>>, TRUE, NoAst, FALSE),
   Scn(<<"S">>, VNone, <<>>, FALSE, NoAst, FALSE),
   Scn(<<"L">>, VNone, <<>>, FALSE, NoAst, FALSE),
   Scn(<<"E">>, VNone, <<>>, FALSE, NoAst, FALSE),
   Scn(<<"Z">>, VNone, <<>>, FALSE, NoAst, FALSE),
   Scn(<<"A",".","y","a","m","l">>, VNone, <<>>, FALSE, NoAst, FALSE),
   Scn(<<"A">>, VNone, <<VStr(<<"a","=","b","=","c">>)>>, FALSE, NoAst, FALSE),
   Scn(sMAIN, Doc1(<<"a">>, XVar(<<"a">>)), <<>>, FALSE, NoAst, TRUE)}

Inputs == MathInputs \cup ArgInputs \cup DocInputs \cup OtherInputs

\* ------------------------------------------------------------------ the build

VARIABLES
  inp,             \* the arguments of the constructor, the files, the environment
  config,          \* self.config
  arg_configs,     \* the configs of _parse_args
  arg_parameters,  \* the parameters of _parse_args
  op_regex,        \* self.op_regex: "none", "cfg" or "general"
  pc,              \* the position in __init__, "error" or "hang" at its end
  err,             \* the class of the exception raised
  trace,           \* the operators dispatched and the overrides applied so far
  obj,             \* the string of the while loop of _interpolate
  iters            \* the passes of that loop so far
vars == <<inp, config, arg_configs, arg_parameters, op_regex, pc, err, trace, obj, iters>>

Ctx == [config |-> config, files |-> inp.files, environ |-> inp.environ]
InPass(ev, pass) == [i \in 1..Len(ev) |-> [ev[i] EXCEPT !.pass = pass]]
\* where a call leaves __init__, and what it leaves in self.config
Goto(r, next) ==
  /\ pc' = IF r.st = "ok" THEN next ELSE IF r.st = "err" THEN "error" ELSE "hang"
  /\ err' = r.kind
Assign(r, next, pass) ==
  /\ Goto(r, next)
  /\ config' = IF r.st = "ok" THEN r.v ELSE config
  /\ trace' = trace \o InPass(r.ev, pass)
Parsed(r) ==
  /\ Goto(r, "parsed")
  /\ arg_configs' = IF r.st = "ok" THEN r.v.configs ELSE arg_configs
  /\ arg_parameters' = IF r.st = "ok" THEN r.v.parameters ELSE arg_parameters

Init ==
  /\ inp \in Inputs
  /\ config = VStr(inp.config)
  /\ arg_configs = <<>>
  /\ arg_parameters = <<>>
  /\ op_regex = "none"
  /\ pc = "init"
  /\ err = ""
  /\ trace = <<>>
  /\ obj = <<>>
  /\ iters = 0

\* line 62
ParseArgs ==
  /\ pc = "init"
  /\ Parsed(ParseArgsOf(inp.args, inp.cli, inp.argv))
  /\ UNCHANGED <<inp, config, op_regex, trace, obj, iters>>

\* line 63
UpdateConfig ==
  /\ pc = "parsed"
  /\ Assign(UpdateConfigOf(config, arg_configs), "updated", "")
  /\ arg_configs' = <<config>> \o arg_configs
  /\ UNCHANGED <<inp, arg_parameters, op_regex, obj, iters>>

\* lines 64-65
InterpolateIncludes ==
  /\ pc = "updated"
  /\ op_regex' = "cfg"
  /\ Assign(Interpolate("cfg", Ctx, config), "merged", "cfg")
  /\ UNCHANGED <<inp, arg_configs, arg_parameters, obj, iters>>

\* line 66
UpdateParameters ==
  /\ pc = "merged"
  /\ Assign(UpdateParametersOf(config, arg_parameters), "overridden", "override")
  /\ UNCHANGED <<inp, arg_configs, arg_parameters, op_regex, obj, iters>>

\* lines 67-68
InterpolateAll ==
  /\ pc = "overridden"
  /\ op_regex' = "general"
  /\ Assign(Interpolate("general", Ctx, config), "resolved", "general")
  /\ UNCHANGED <<inp, arg_configs, arg_parameters, obj, iters>>

\* line 69
ConvertNumeric ==
  /\ pc = "resolved"
  /\ config' = ApplyRecursively(config)
  /\ pc' = "coerced"
  /\ UNCHANGED <<inp, arg_configs, arg_parameters, op_regex, err, trace, obj, iters>>

\* lines 71-77: self.config.items() is an AttributeError unless config is a dict
SetAttributes ==
  /\ pc = "coerced"
  /\ Assign(IF IsMap(config) THEN Ok(Attributes(config)) ELSE Err("AttributeError"), "done", "")
  /\ op_regex' = IF IsMap(config) THEN "none" ELSE op_regex
  /\ UNCHANGED <<inp, arg_configs, arg_parameters, obj, iters>>

Next ==
  \/ ParseArgs
  \/ UpdateConfig
  \/ InterpolateIncludes
  \/ UpdateParameters
  \/ InterpolateAll
  \/ ConvertNumeric
  \/ SetAttributes

Spec == Init /\ [][Next]_vars

\* ------------------------------------------------------------------ the while loop

\* the strings of a tree
RECURSIVE StrLeaves(_)
StrLeaves(x) ==
  IF IsStr(x) THEN {x.s}
  ELSE IF IsMap(x) \/ IsList(x) THEN UNION {StrLeaves(x.items[i].v) : i \in 1..Len(x.items)}
  ELSE {}

\* The build with the full pass opened at one string: the while loop of
\* _interpolate runs a pass at a time on a string of the tree that contains
\* an expression and is not one as a whole.
LoopStrings(tree) ==
  {s \in StrLeaves(tree) :
     ContainsExpression("general", s) /\ ~IsEntireExpression("general", s)}

\* line 133: the walk reaches such a string
EnterLoop ==
  /\ pc = "overridden"
  /\ op_regex' = "general"
  /\ obj' \in LoopStrings(config)
  /\ iters' = 0
  /\ pc' = "loop"
  /\ UNCHANGED <<inp, config, arg_configs, arg_parameters, err, trace>>

\* lines 135-137: one pass of the loop
Passed(r) ==
  /\ pc' = IF r.st = "ok" THEN "loop" ELSE "error"
  /\ err' = r.kind
  /\ obj' = IF r.st = "ok" THEN r.v.s ELSE obj
  /\ trace' = trace \o InPass(r.ev, "general")
LoopPass ==
  /\ pc = "loop"
  /\ ContainsExpression("general", obj)
  /\ iters < MaxIters
  /\ Passed(ReplaceStep("general", Ctx, obj))
  /\ iters' = iters + 1
  /\ UNCHANGED <<inp, config, arg_configs, arg_parameters, op_regex>>

\* lines 134 and 138: the condition is false and the string is returned
LoopExit ==
  /\ pc = "loop"
  /\ ~ContainsExpression("general", obj)
  /\ pc' = "exited"
  /\ UNCHANGED <<inp, config, arg_configs, arg_parameters, op_regex, err, trace, obj, iters>>

NextLoop ==
  \/ ParseArgs
  \/ UpdateConfig
  \/ InterpolateIncludes
  \/ UpdateParameters
  \/ EnterLoop
  \/ LoopPass
  \/ LoopExit

SpecLoop == Init /\ [][NextLoop]_vars

\* ------------------------------------------------------------------ properties

\* the expressions of a string: the indices where the general pattern
\* matches, the operator and the argument of the match at an index
Matches(s) == {i \in 1..Len(s) : MatchAt("general", s, i).ok}
KindAt(s, i) == OpKind(OpOf(s, MatchAt("general", s, i)))
PathAt(s, i) == Split(ArgOf(s, MatchAt("general", s, i)), ".")
\* the document a build of the path M starts from
MainDoc == Get(inp.files, sMAIN)
\* the tree read as nested mappings: a path is absent when a segment is not
\* a key of the mapping reached, or what is reached is not a mapping
RECURSIVE Absent(_, _)
Absent(tree, keys) ==
  /\ keys # <<>>
  /\ \/ ~IsMap(tree)
     \/ ~HasKey(tree.items, Head(keys))
     \/ Absent(Get(tree.items, Head(keys)), Tail(keys))
RECURSIVE AtPath(_, _)
AtPath(tree, keys) ==
  IF keys = <<>> THEN tree ELSE AtPath(Get(tree.items, Head(keys)), Tail(keys))

\* in a finished build of the document D the value of ${var:a.b} is the
\* value the tree holds at a.b
C1_VarSeesOverride ==
  (pc = "done" /\ inp.config = <<"D">> /\ ~Absent(config, <<<<"a">>, <<"b">>>>))
    => Get(config.items, <<"r">>) = AtPath(config, <<<<"a">>, <<"b">>>>)
\* C1: the events of a build are in phase order: every include is evaluated
\* in the include pass, every override in the override step, every var, env
\* and arithmetic expression in the full pass; and in a finished build of
\* the document D the expression ${var:a.b} has the value the tree holds at
\* a.b, overrides included.
C1_PhaseOrder ==
  /\ \A i \in 1..Len(trace) :
       /\ trace[i].kind = "cfg" => trace[i].pass = "cfg"
       /\ trace[i].kind = "override" => trace[i].pass = "override"
       /\ trace[i].kind \in {"var", "env", "math"} => trace[i].pass = "general"
  /\ C1_VarSeesOverride
\* an include evaluated after an override
C1_IncludeAfterOverride ==
  \E i, j \in 1..Len(trace) :
    i < j /\ trace[i].kind = "override" /\ trace[j].kind = "cfg" /\ trace[j].st = "ok"

\* C2: the tree of a finished build holds no string with an expression
\* whose operator is var, cfg, env or an arithmetic name.
C2_NoExpressionLeft ==
  pc = "done" =>
    \A s \in StrLeaves(config) : \A i \in Matches(s) : KindAt(s, i) = "unknown"
\* a finished build whose tree still holds ${var:c}
C2_VarLeft == pc = "done" /\ Expr(sVAR, <<"c">>) \in StrLeaves(config)

\* a tree with expressions, all of them of unknown operators
OnlyUnknown(tree) ==
  /\ \E s \in StrLeaves(tree) : Matches(s) # {}
  /\ \A s \in StrLeaves(tree) : \A i \in Matches(s) : KindAt(s, i) = "unknown"
\* C3: a build of a document whose expressions all have unknown operators
\* ends neither in an error nor in an endless loop, and its finished tree
\* holds every string of the document that has such an expression.
C3_UnknownOperatorKept ==
  (inp.config = sMAIN /\ OnlyUnknown(MainDoc)) =>
    /\ pc \notin {"error", "hang"}
    /\ pc = "done" =>
         \A s \in StrLeaves(MainDoc) : Matches(s) # {} => s \in StrLeaves(config)
\* the full pass never leaves the string x${foo:bar}
C3_EmbeddedUnknownHangs ==
  /\ pc = "hang"
  /\ (<<"x">> \o Expr(sFOO, <<"b","a","r">>)) \in StrLeaves(config)

\* a tree with a var expression whose path is absent from it
UndefinedVar(tree) ==
  \E s \in StrLeaves(tree) : \E i \in Matches(s) :
    KindAt(s, i) = "var" /\ Absent(tree, PathAt(s, i))
\* C4: when the tree the full pass starts from holds a var expression whose
\* path is absent, the pass ends in the error RuntimeError (is not defined)
\* and the tree is not replaced.
C4_UndefinedVariable ==
  [][(pc = "overridden" /\ UndefinedVar(config))
       => (pc' = "error" /\ err' = "RuntimeError" /\ config' = config)]_vars
\* a var expression whose path runs through a scalar ends in a TypeError
C4_TypeErrorRaised ==
  /\ pc = "error"
  /\ err = "TypeError"
  /\ UndefinedVar(config)
  /\ trace # <<>>
  /\ trace[Len(trace)].kind = "var"
  /\ trace[Len(trace)].st = "err"

\* the value of a nested arithmetic expression: each node is the left fold
\* of its operation over the values of its operands
ApplyOp(op, a, b) == IF op = sADD THEN a + b ELSE IF op = sSUB THEN a - b ELSE a * b
RECURSIVE FoldLeft(_, _)
FoldLeft(op, vals) ==
  IF Len(vals) = 1 THEN vals[1]
  ELSE ApplyOp(op, FoldLeft(op, SubSeq(vals, 1, Len(vals) - 1)), vals[Len(vals)])
RECURSIVE Eval(_)
Eval(e) ==
  IF e.op = <<>> THEN e.n
  ELSE FoldLeft(e.op, [i \in 1..Len(e.args) |-> Eval(e.args[i])])
\* C5: a build of a document whose one value is a nested arithmetic
\* expression finishes, and the value is the integer that the left fold of
\* each operation over the values of its operands gives.
C5_NestedArithmetic ==
  inp.ast # NoAst =>
    /\ pc \notin {"error", "hang"}
    /\ pc = "done" => config = VMap(<<Item(<<"r">>, VInt(Eval(inp.ast)))>>)
\* a finished build of an expression nested to the full depth, with three
\* operands at the top, whose value is that of the left fold
C5_DeepNestResolved ==
  /\ pc = "done"
  /\ Depth(inp.ast) = MaxDepth
  /\ Len(inp.ast.args) = 3
  /\ Depth(inp.ast.args[2]) = MaxDepth - 1
  /\ config = VMap(<<Item(<<"r">>, VInt(Eval(inp.ast)))>>)

\* the documents an include lists, and the shallow merge of mappings
IncludeNames(arg) == Split(RemoveSpaces(arg), ",")
IncludeDocs(arg) ==
  [i \in 1..Len(IncludeNames(arg)) |-> Get(inp.files, FileStem(IncludeNames(arg)[i]))]
AllMappings(arg) ==
  \A i \in 1..Len(IncludeNames(arg)) :
    /\ HasKey(inp.files, FileStem(IncludeNames(arg)[i]))
    /\ IsMap(Get(inp.files, FileStem(IncludeNames(arg)[i])))
LastWith(docs, k) ==
  docs[CHOOSE i \in 1..Len(docs) :
         /\ HasKey(docs[i].items, k)
         /\ \A j \in (i + 1)..Len(docs) : ~HasKey(docs[j].items, k)]
ShallowMerge(res, docs) ==
  /\ IsMap(res)
  /\ Keys(res.items) = UNION {Keys(docs[i].items) : i \in 1..Len(docs)}
  /\ Len(res.items) = Cardinality(Keys(res.items))
  /\ \A k \in Keys(res.items) : Get(res.items, k) = Get(LastWith(docs, k).items, k)
\* C6: every include that lists mapping documents only gives a mapping
\* whose keys are the keys of the documents and whose value at a key is the
\* value, as it stands, of the last listed document that has the key.
C6_ShallowMerge ==
  \A i \in 1..Len(trace) :
    (trace[i].kind = "cfg" /\ AllMappings(trace[i].arg))
      => (trace[i].st = "ok" /\ ShallowMerge(trace[i].res, IncludeDocs(trace[i].arg)))
\* the include of A, N and P: y is the mapping of P, not N's merged with it
C6_LastDocumentWins ==
  /\ pc = "merged"
  /\ Len(trace) = 1
  /\ IncludeNames(trace[1].arg) = <<<<"A">>, <<"N">>, <<"P">>>>
  /\ config = VMap(<<Item(<<"x">>, VMap(<<Item(<<"q">>, VInt(1))>>)),
                     Item(<<"y">>, VMap(<<Item(<<"r">>, VInt(3))>>))>>)

\* the tree with a value set at a path, mappings created on the way
RECURSIVE PutPath(_, _, _)
PutPath(tree, keys, value) ==
  LET items == IF IsMap(tree) THEN tree.items ELSE <<>>
  IN IF Len(keys) = 1 THEN VMap(SetItem(items, Head(keys), value))
     ELSE VMap(SetItem(items, Head(keys),
                       PutPath(IF HasKey(items, Head(keys)) THEN Get(items, Head(keys))
                               ELSE VMap(<<>>),
                               Tail(keys), value)))
RECURSIVE PutAll(_, _)
PutAll(tree, paras) ==
  IF paras = <<>> THEN tree
  ELSE PutAll(PutPath(tree, Split(Split(Head(paras).s, "=")[1], "."),
                      VStr(Split(Head(paras).s, "=")[2])),
              Tail(paras))
KeyValues(paras) ==
  \A i \in 1..Len(paras) : IsStr(paras[i]) /\ Len(Split(paras[i].s, "=")) = 2
\* C7: the override step applied to a mapping with overrides of the form
\* key=value leaves the tree that setting each path in turn gives, a new
\* mapping taking the place of whatever a segment leads to that is not a
\* mapping; and the finished build of D with a.b=5 holds the integer 5.
C7_OverridesApplied ==
  [][/\ (pc = "merged" /\ IsMap(config) /\ KeyValues(arg_parameters))
          => (pc' = "overridden" /\ config' = PutAll(config, arg_parameters))
     /\ (pc' = "done" /\ inp.config = <<"D">>
           /\ inp.args = <<VStr(<<"a",".","b","=","5">>)>>)
          => AtPath(config', <<<<"a">>, <<"b">>>>) = VInt(5)]_vars
\* an override whose path runs through a scalar ends the step in a TypeError
C7_ScalarOnPath ==
  /\ pc = "error"
  /\ err = "TypeError"
  /\ IsMap(config)
  /\ KeyValues(arg_parameters)
  /\ arg_parameters # <<>>
  /\ trace # <<>>
  /\ trace[Len(trace)].pass \in {"cfg", "override"}

\* the classes of an argument token
IsOverrideToken(a) == Contains(a.s, <<"=">>)
IsFlagToken(a) ==
  ~Contains(a.s, <<"=">>) /\ Len(a.s) >= 2 /\ SubSeq(a.s, 1, 2) = <<"-","-">>
IsPathToken(a) == ~IsOverrideToken(a) /\ ~IsFlagToken(a)
IsParameterToken(a) == ~IsPathToken(a)
AsParameter(a) ==
  IF IsFlagToken(a) THEN VStr(SubSeq(a.s, 3, Len(a.s)) \o sTRUE) ELSE a
\* C8: after the classification the configs are the tokens that have no =
\* and do not begin with --, in order, and the parameters are the tokens
\* with =, and for each token without = that begins with --, its name
\* followed by =True.
C8_TokenClasses ==
  (pc = "parsed" /\ ~inp.cli) =>
    /\ arg_configs = SelectSeq(inp.args, IsPathToken)
    /\ arg_parameters =
         [i \in 1..Len(SelectSeq(inp.args, IsParameterToken)) |->
            AsParameter(SelectSeq(inp.args, IsParameterToken)[i])]
\* the token y--z has become the parameter -z=True
C8_InnerDashesAsFlag ==
  /\ pc = "parsed"
  /\ inp.args = <<VStr(<<"y","-","-","z">>)>>
  /\ arg_configs = <<>>
  /\ arg_parameters = <<VStr(<<"-","z">> \o sTRUE)>>

\* the number of expression markers of a string
Markers(s) == Cardinality({i \in 1..(Len(s) - 1) : s[i] = "$" /\ s[i + 1] = "{"})
\* C9: in a build without a variable that refers to itself every pass of
\* the while loop leaves a string with fewer expression markers (${) than
\* it found.
C9_MarkersDecrease ==
  [][(pc = "loop" /\ pc' = "loop" /\ ~inp.cyclic) => Markers(obj') < Markers(obj)]_vars
\* the loop has run all the passes allowed on a string that no pass changes
C9_LoopSpins ==
  /\ pc = "loop"
  /\ ~inp.cyclic
  /\ iters = MaxIters
  /\ ContainsExpression("general", obj)
  /\ obj \in StrLeaves(config)

\* str() of an int, a bool or None; the var expression a pass is about
StrForm(x) ==
  IF x.t = "int" THEN IntToStr(x.n)
  ELSE IF x.t = "bool" THEN (IF x.n = 1 THEN <<"T","r","u","e">> ELSE <<"F","a","l","s","e">>)
  ELSE <<"N","o","n","e">>
FirstVarPath(s) == Split(GetExpression("general", s).arg, ".")
NonStringVar(tree, s) ==
  /\ ContainsExpression("general", s)
  /\ OpKind(GetExpression("general", s).op) = "var"
  /\ ~Absent(tree, FirstVarPath(s))
  /\ ~IsStr(AtPath(tree, FirstVarPath(s)))
\* C10: a pass of the while loop whose expression is a var that leads to a
\* value that is not a string stays in the loop, and for an int, a bool or
\* None the occurrence has become str() of the value.
C10_NonStringEmbedded ==
  [][(pc = "loop" /\ iters' = iters + 1 /\ NonStringVar(config, obj))
       => /\ pc' = "loop"
          /\ AtPath(config, FirstVarPath(obj)).t \in {"int", "bool", "none"}
               => obj' = Replace1(obj, GetExpression("general", obj).expr,
                                  StrForm(AtPath(config, FirstVarPath(obj))))]_vars
\* the pass on x${var:n}, n an int, has raised a TypeError
C10_ReplaceRaises ==
  /\ pc = "error"
  /\ err = "TypeError"
  /\ NonStringVar(config, obj)
  /\ AtPath(config, FirstVarPath(obj)).t = "int"

====
